---- MODULE Spec2Model ----
(***************************************************************************)
(* Model of dnaplotlib/datatype.py: the Design / Module / PartList / Part  *)
(* / Interaction data type and Design.print_design.                        *)
(*                                                                         *)
(* Objects live in heaps (sequences of records); a reference is the index  *)
(* of the object in its heap and None is the null reference.  Every call   *)
(* of the public API is one action.  The console output, the return value  *)
(* and the exception of the most recent call are kept in stdout, ret and   *)
(* raised, and the call itself (operation, receiver, argument) in call.    *)
(***************************************************************************)
EXTENDS Naturals, Sequences, FiniteSets, TLC

VARIABLES designs, modules, part_lists, parts, interactions,
          call, ret, stdout, raised, ncalls

vars == <<designs, modules, part_lists, parts, interactions,
          call, ret, stdout, raised, ncalls>>

\* Python's None, as a reference that is the index of no object.
None == 0

\* Bound of the model: how many constructor and add_* calls a run makes
\* after the initial state (print_design may be called at any time).
MaxCalls == 2

\* Inputs of the calls.
DesignNames == {"design2"}
ModuleNames == {"module1b"}
PartNames == {"x"}
PartTypes == {"CDS"}
InteractionTypes == {"process"}

DesignIds == 1..Len(designs)
ModuleIds == 1..Len(modules)
PartListIds == 1..Len(part_lists)
PartIds == 1..Len(parts)
InteractionIds == 1..Len(interactions)

\* The objects a call is given: the oldest and the newest of a heap.
Picks(heap) == {i \in 1..Len(heap) : i = 1 \/ i = Len(heap)}

\* The arguments an add_* method accepts: one item, or a list of items
\* (type(x) == list).  A list argument may be empty and may repeat an item.
One(x) == [list |-> FALSE, items |-> <<x>>]
Many(s) == [list |-> TRUE, items |-> s]
ArgsOver(S) ==
  {One(x) : x \in S} \cup {Many(<<>>)} \cup {Many(<<a, b>>) : a \in S, b \in S}

----------------------------------------------------------------------------
(* Constructors *)

\* Part.__init__
Part(parent_module, name, type) ==
  [parent_module |-> parent_module, name |-> name, type |-> type,
   orientation |-> "+", frame |-> None]

\* PartList.__init__
PartList == [position |-> None, backbone |-> "DNA", parts |-> <<>>]

\* Interaction.__init__
Interaction(interaction_type, part_start, part_end) ==
  [part_start |-> part_start, part_end |-> part_end,
   coordinates |-> <<>>, type |-> interaction_type]

\* Module.__init__
Module(design, name) ==
  [design |-> design, name |-> name, level |-> 0, frame |-> None,
   children |-> <<>>, part_list |-> None, other_parts |-> <<>>]

\* Design.__init__
Design(name) == [name |-> name, modules |-> <<>>, interactions |-> <<>>]

\* list.append(x) / list += xs, chosen by type(arg) != list
Extend(lst, arg) ==
  IF ~arg.list THEN Append(lst, arg.items[1]) ELSE lst \o arg.items

----------------------------------------------------------------------------
(* The methods that build a design, as functions of the heaps.             *)
(* h is the record of the five heaps.                                      *)

Heap == [designs |-> designs, modules |-> modules, part_lists |-> part_lists,
         parts |-> parts, interactions |-> interactions]

EmptyHeap == [designs |-> <<>>, modules |-> <<>>, part_lists |-> <<>>,
              parts |-> <<>>, interactions |-> <<>>]

NewDesign(h, name) == [h EXCEPT !.designs = Append(@, Design(name))]

NewModule(h, design, name) == [h EXCEPT !.modules = Append(@, Module(design, name))]

NewPart(h, parent_module, name, type) ==
  [h EXCEPT !.parts = Append(@, Part(parent_module, name, type))]

NewInteraction(h, type, part_start, part_end) ==
  [h EXCEPT !.interactions = Append(@, Interaction(type, part_start, part_end))]

\* PartList.add_part, on the PartList at index pl of lists
PartList_add_part(lists, pl, part) ==
  [lists EXCEPT ![pl].parts = Extend(@, part)]

\* Module.add_module with the child inserted at the front of the children
Module_add_module_front(h, self, name) ==
  LET child == Len(h.modules) + 1 IN
  [h EXCEPT !.modules =
     Append([@ EXCEPT ![self].children = <<child>> \o @],
            Module(h.modules[self].design, name))]

\* Module.add_module appending the receiver instead of the new child
Module_add_module_self(h, self, name) ==
  [h EXCEPT !.modules =
     Append([@ EXCEPT ![self].children = Append(@, self)],
            Module(h.modules[self].design, name))]

\* Module.add_module: the child is the new last object of the module heap
Module_add_module(h, self, name) ==
  LET child == Len(h.modules) + 1 IN
  [h EXCEPT !.modules =
     Append([@ EXCEPT ![self].children = Append(@, child)],
            Module(h.modules[self].design, name))]

\* Module.add_part without the test for an existing PartList: every call
\* starts a new one
Module_add_part_fresh(h, self, part) ==
  LET lists == Append(h.part_lists, PartList)
      pl == Len(lists)
  IN [h EXCEPT !.modules[self].part_list = pl,
               !.part_lists = PartList_add_part(lists, pl, part)]

\* Module.add_part
Module_add_part(h, self, part) ==
  LET created == h.modules[self].part_list = None
      lists == IF created THEN Append(h.part_lists, PartList) ELSE h.part_lists
      pl == IF created THEN Len(lists) ELSE h.modules[self].part_list
  IN [h EXCEPT !.modules[self].part_list = pl,
               !.part_lists = PartList_add_part(lists, pl, part)]

\* Module.add_other_part
Module_add_other_part(h, self, part) ==
  [h EXCEPT !.modules[self].other_parts =
     IF part.list THEN @ \o part.items ELSE Append(@, part.items[1])]

\* Design.add_module that skips the modules the design already holds
Design_add_module_unique(h, self, module) ==
  [h EXCEPT !.designs[self].modules =
     @ \o SelectSeq(module.items,
                    LAMBDA x : \A i \in 1..Len(h.designs[self].modules) :
                                  h.designs[self].modules[i] # x)]

\* Design.add_module
Design_add_module(h, self, module) ==
  [h EXCEPT !.designs[self].modules = Extend(@, module)]

\* Design.add_interaction
Design_add_interaction(h, self, interaction) ==
  [h EXCEPT !.designs[self].interactions = Extend(@, interaction)]

\* create_test_design3: design3, module1 > module1a > module1a_1 (three
\* parts), module2 (one part), one interaction between the two modules.
create_test_design3 ==
  LET h1 == NewDesign(EmptyHeap, "design3")
      design == 1
      h2 == NewModule(h1, design, "module1")
      module1 == 1
      h3 == Module_add_module(h2, module1, "module1a")
      module1a == 2
      h4 == Module_add_module(h3, module1a, "module1a_1")
      module1a_1 == 3
      h5 == NewPart(h4, module1a_1, "1a_1_p", "Promoter")
      part1a_1_p == 1
      h6 == Module_add_part(h5, module1a_1, One(part1a_1_p))
      h7 == Module_add_part(NewPart(h6, module1a_1, "1a_1_c", "CDS"),
                            module1a_1, One(2))
      h8 == Module_add_part(NewPart(h7, module1a_1, "1a_1_t", "Terminator"),
                            module1a_1, One(3))
      h9 == NewModule(h8, design, "module2")
      module2 == 4
      h10 == NewPart(h9, module2, "2p", "Promoter")
      part_2_p == 4
      h11 == Module_add_part(h10, module2, One(part_2_p))
      h12 == Design_add_module(h11, design, Many(<<module1, module2>>))
      h13 == NewInteraction(h12, "inhibition", part1a_1_p, part_2_p)
      interaction == 1
  IN Design_add_interaction(h13, design, One(interaction))

----------------------------------------------------------------------------
(* print_design *)

RECURSIVE Join(_, _)
\* sep.join(names)
Join(sep, names) ==
  IF names = <<>> THEN ""
  ELSE IF Len(names) = 1 THEN names[1]
  ELSE names[1] \o sep \o Join(sep, Tail(names))

\* print(*args): the arguments separated by one space, as one line
print(args) == <<Join(" ", args)>>

\* __print_part_list joining the names with ", "
PrintPartListSpaced(part_list, indent) ==
  IF part_list = None THEN <<>>
  ELSE LET ps == part_lists[part_list].parts
           names == [i \in 1..Len(ps) |-> parts[ps[i]].name]
       IN print(<<indent \o "  Parts: " \o Join(", ", names)>>)

\* Design.__print_part_list
PrintPartList(part_list, indent) ==
  IF part_list = None THEN <<>>
  ELSE LET ps == part_lists[part_list].parts
           names == [i \in 1..Len(ps) |-> parts[ps[i]].name]
       IN print(<<indent \o "  Parts: " \o Join(",", names)>>)

RECURSIVE PrintModuleTree(_, _)
RECURSIVE PrintChildren(_, _)
\* __print_module_tree recursing with the indent it was given
PrintModuleTreeSameIndent(starting_module, indent) ==
  LET m == modules[starting_module] IN
  print(<<indent \o "Module:", m.name>>) \o
  (IF Len(m.children) > 0
     THEN PrintChildren(m.children, indent)
     ELSE PrintPartList(m.part_list, indent))

\* Design.__print_module_tree
PrintModuleTree(starting_module, indent) ==
  LET m == modules[starting_module] IN
  print(<<indent \o "Module:", m.name>>) \o
  (IF Len(m.children) > 0
     THEN PrintChildren(m.children, indent \o "  ")
     ELSE PrintPartList(m.part_list, indent))

\* the loop "for node in ...: self.__print_module_tree(node, indent)"
PrintChildren(nodes, indent) ==
  IF nodes = <<>> THEN <<>>
  ELSE PrintModuleTree(Head(nodes), indent) \o PrintChildren(Tail(nodes), indent)

\* The loop over self.interactions.  The arguments of print are evaluated
\* first: interaction.part_start.name (or part_end.name) on None raises
\* AttributeError, nothing of that line is printed and the loop ends.
RECURSIVE PrintInteractionsSwapped(_)
\* the loop over self.interactions with part_end printed as the start
PrintInteractionsSwapped(ints) ==
  IF ints = <<>> THEN [lines |-> <<>>, raised |-> "None"]
  ELSE LET interaction == interactions[Head(ints)] IN
       IF interaction.part_start = None \/ interaction.part_end = None
         THEN [lines |-> <<>>, raised |-> "AttributeError"]
         ELSE LET rest == PrintInteractionsSwapped(Tail(ints)) IN
              [lines |-> print(<<"Interaction from part:",
                                 parts[interaction.part_end].name,
                                 "to part:", parts[interaction.part_start].name,
                                 "of type:", interaction.type>>) \o rest.lines,
               raised |-> rest.raised]

RECURSIVE PrintInteractions(_)
PrintInteractions(ints) ==
  IF ints = <<>> THEN [lines |-> <<>>, raised |-> "None"]
  ELSE LET interaction == interactions[Head(ints)] IN
       IF interaction.part_start = None \/ interaction.part_end = None
         THEN [lines |-> <<>>, raised |-> "AttributeError"]
         ELSE LET rest == PrintInteractions(Tail(ints)) IN
              [lines |-> print(<<"Interaction from part:",
                                 parts[interaction.part_start].name,
                                 "to part:", parts[interaction.part_end].name,
                                 "of type:", interaction.type>>) \o rest.lines,
               raised |-> rest.raised]

\* Design.print_design: the lines printed and the exception raised.
print_design(self) ==
  LET tail == PrintInteractions(designs[self].interactions) IN
  [lines |-> print(<<"Design:", designs[self].name>>)
             \o PrintChildren(designs[self].modules, "  ")
             \o tail.lines,
   raised |-> tail.raised]

----------------------------------------------------------------------------
(* Actions: one per call of the API *)

\* The initial state: nothing constructed yet, or the design that
\* create_test_design3 returns.
Init ==
  /\ \E h \in {EmptyHeap, create_test_design3} :
       /\ designs = h.designs
       /\ modules = h.modules
       /\ part_lists = h.part_lists
       /\ parts = h.parts
       /\ interactions = h.interactions
  /\ call = [op |-> "start"]
  /\ ret = None
  /\ stdout = <<>>
  /\ raised = "None"
  /\ ncalls = 0

\* A constructor or an add_* call: the heaps become h, the call returns r,
\* prints nothing and raises nothing.
Returns(h, r) ==
  /\ ncalls < MaxCalls
  /\ ncalls' = ncalls + 1
  /\ designs' = h.designs
  /\ modules' = h.modules
  /\ part_lists' = h.part_lists
  /\ parts' = h.parts
  /\ interactions' = h.interactions
  /\ ret' = r
  /\ stdout' = <<>>
  /\ raised' = "None"

\* design = Design(name)
CallDesign ==
  \E name \in DesignNames :
    /\ call' = [op |-> "Design", name |-> name]
    /\ Returns(NewDesign(Heap, name), Len(designs) + 1)

\* module = Module(design, name)
CallModule ==
  \E design \in DesignIds \cup {None}, name \in ModuleNames :
    /\ call' = [op |-> "Module", design |-> design, name |-> name]
    /\ Returns(NewModule(Heap, design, name), Len(modules) + 1)

\* part = Part(parent_module, name, type)
CallPart ==
  \E parent_module \in Picks(modules) \cup {None}, name \in PartNames,
     type \in PartTypes :
    /\ call' = [op |-> "Part", parent_module |-> parent_module, name |-> name]
    /\ Returns(NewPart(Heap, parent_module, name, type), Len(parts) + 1)

\* interaction = Interaction(type, part_start, part_end)
CallInteraction ==
  \E type \in InteractionTypes, part_start \in Picks(parts) \cup {None},
     part_end \in Picks(parts) \cup {None} :
    /\ call' = [op |-> "Interaction", type |-> type]
    /\ Returns(NewInteraction(Heap, type, part_start, part_end),
               Len(interactions) + 1)

\* child = self.add_module(name)
ModuleAddModule ==
  \E self \in ModuleIds, name \in ModuleNames :
    /\ call' = [op |-> "Module.add_module", self |-> self, name |-> name]
    /\ Returns(Module_add_module(Heap, self, name), Len(modules) + 1)

\* self.add_part(part)
ModuleAddPart ==
  \E self \in ModuleIds, part \in ArgsOver(Picks(parts)) :
    /\ call' = [op |-> "Module.add_part", self |-> self, arg |-> part]
    /\ Returns(Module_add_part(Heap, self, part), None)

\* self.add_other_part(part)
ModuleAddOtherPart ==
  \E self \in Picks(modules), part \in ArgsOver(Picks(parts)) :
    /\ call' = [op |-> "Module.add_other_part", self |-> self, arg |-> part]
    /\ Returns(Module_add_other_part(Heap, self, part), None)

\* self.add_module(module)
DesignAddModule ==
  \E self \in DesignIds, module \in ArgsOver(Picks(modules)) :
    /\ call' = [op |-> "Design.add_module", self |-> self, arg |-> module]
    /\ Returns(Design_add_module(Heap, self, module), None)

\* self.add_interaction(interaction)
DesignAddInteraction ==
  \E self \in DesignIds, interaction \in ArgsOver(Picks(interactions)) :
    /\ call' = [op |-> "Design.add_interaction", self |-> self,
                arg |-> interaction]
    /\ Returns(Design_add_interaction(Heap, self, interaction), None)

\* print_design taking each interaction off the list as it prints it
PrintDesignDraining ==
  \E self \in DesignIds :
    /\ call' = [op |-> "Design.print_design", self |-> self]
    /\ stdout' = print_design(self).lines
    /\ raised' = print_design(self).raised
    /\ ret' = None
    /\ designs' = [designs EXCEPT ![self].interactions =
                     SubSeq(@, Len(PrintInteractions(@).lines) + 1, Len(@))]
    /\ UNCHANGED <<modules, part_lists, parts, interactions, ncalls>>

\* self.print_design()
PrintDesign ==
  \E self \in DesignIds :
    /\ call' = [op |-> "Design.print_design", self |-> self]
    /\ stdout' = print_design(self).lines
    /\ raised' = print_design(self).raised
    /\ ret' = None
    /\ UNCHANGED <<designs, modules, part_lists, parts, interactions, ncalls>>

Next ==
  \/ CallDesign
  \/ CallModule
  \/ CallPart
  \/ CallInteraction
  \/ ModuleAddModule
  \/ ModuleAddPart
  \/ ModuleAddOtherPart
  \/ DesignAddModule
  \/ DesignAddInteraction
  \/ PrintDesign

Spec == Init /\ [][Next]_vars

----------------------------------------------------------------------------
(* Vocabulary of the properties *)

\* The state right after a call of print_design.
Printed == call.op = "Design.print_design"

\* The parts a Module holds on its backbone; none while it has no PartList.
PartsOf(mods, lists, m) ==
  IF mods[m].part_list = None THEN <<>> ELSE lists[mods[m].part_list].parts

RECURSIVE Spaces(_)
Spaces(n) == IF n = 0 THEN "" ELSE " " \o Spaces(n - 1)

\* names separated by commas, built from the left
RECURSIVE CommaList(_)
CommaList(names) ==
  IF Len(names) = 0 THEN ""
  ELSE IF Len(names) = 1 THEN names[1]
  ELSE CommaList(SubSeq(names, 1, Len(names) - 1)) \o "," \o names[Len(names)]

PartNamesOf(m) ==
  LET ps == PartsOf(modules, part_lists, m) IN
  [i \in 1..Len(ps) |-> parts[ps[i]].name]

\* A visit of the traversal is the path of list positions that leads to it:
\* <<i>> is the i-th registered module of the design, Append(p, j) the j-th
\* child of the module visited at p.
RECURSIVE PathsUnder(_, _)
PathsUnder(m, path) ==
  {path} \cup UNION {PathsUnder(modules[m].children[j], Append(path, j)) :
                       j \in 1..Len(modules[m].children)}

Visits(d) ==
  UNION {PathsUnder(designs[d].modules[i], <<i>>) :
           i \in 1..Len(designs[d].modules)}

RECURSIVE ModuleAt(_, _)
ModuleAt(d, path) ==
  IF Len(path) = 1 THEN designs[d].modules[path[1]]
  ELSE modules[ModuleAt(d, SubSeq(path, 1, Len(path) - 1))].children[path[Len(path)]]

\* Depth-first pre-order: an ancestor before its descendants, a subtree
\* before the subtrees of the later siblings.
Before(p, q) ==
  \/ Len(p) < Len(q) /\ SubSeq(q, 1, Len(p)) = p
  \/ \E k \in 1..Len(p) :
       /\ k <= Len(q)
       /\ SubSeq(p, 1, k - 1) = SubSeq(q, 1, k - 1)
       /\ p[k] < q[k]

\* The place of visit p among the visits V, in that order.
Rank(V, p) == 1 + Cardinality({q \in V : Before(q, p)})

ModuleLine(d, p) ==
  Spaces(2 * Len(p)) \o "Module: " \o modules[ModuleAt(d, p)].name

\* The indents "", " ", "  ", ... of up to n spaces.
RECURSIVE Indents(_)
Indents(n) ==
  IF n = 0 THEN <<"">>
  ELSE LET shorter == Indents(n - 1)
       IN Append(shorter, shorter[Len(shorter)] \o " ")

IndentSet ==
  LET s == Indents(2 * Len(modules) + 2) IN {s[i] : i \in 1..Len(s)}

\* Every text a "Module:" line of some module can be, at any indent.
ModuleLines ==
  {s \o "Module: " \o modules[m].name : s \in IndentSet, m \in ModuleIds}

\* Every text a "Parts:" line of some module's PartList can be.
PartsLines ==
  {s \o "Parts: " \o CommaList(PartNamesOf(m)) :
     s \in IndentSet, m \in {x \in ModuleIds : modules[x].part_list # None}}

\* The positions in out of the lines that are in the set lines, in order.
IndexesOf(out, lines) ==
  SelectSeq([i \in 1..Len(out) |-> i], LAMBDA i : out[i] \in lines)

----------------------------------------------------------------------------
(* Properties *)

\* C1: every call of Module.add_part, with one Part or with a list of Parts,
\* appends its arguments in order to the end of the module's parts and
\* changes no other module's parts; the PartList is created by the first
\* call (a new object) and is the same object after every later call of any
\* operation.  No other call changes any module's parts.
C1_AddPartConcatenates ==
  [][\A m \in ModuleIds :
       /\ PartsOf(modules', part_lists', m) =
            PartsOf(modules, part_lists, m) \o
              (IF call'.op = "Module.add_part" /\ call'.self = m
                 THEN call'.arg.items ELSE <<>>)
       /\ modules[m].part_list # None
            => modules'[m].part_list = modules[m].part_list
       /\ modules[m].part_list = None
            => IF call'.op = "Module.add_part" /\ call'.self = m
                 THEN modules'[m].part_list \in
                        (1..Len(part_lists')) \ (1..Len(part_lists))
                 ELSE modules'[m].part_list = None]_vars

\* C1's case: a module whose PartList was created by an earlier call has
\* just been given a list of two distinct parts, after the parts it held.
C1_Witness ==
  /\ call.op = "Module.add_part"
  /\ call.arg.list
  /\ Len(call.arg.items) = 2
  /\ call.arg.items[1] # call.arg.items[2]
  /\ Len(PartsOf(modules, part_lists, call.self)) = 3
  /\ SubSeq(PartsOf(modules, part_lists, call.self), 2, 3) = call.arg.items

\* C2: every call of Module.add_module(name) appends exactly one child to
\* the end of the receiver's children, the child is a newly constructed
\* Module (no children, no PartList, the given name) whose design is the
\* receiver's design, the call returns that child, and nothing else about
\* any module changes; no other call changes any module's children.
C2_AddModuleAppendsChild ==
  [][IF call'.op = "Module.add_module"
       THEN LET self == call'.self IN
            /\ ret' = Len(modules) + 1
            /\ Len(modules') = Len(modules) + 1
            /\ modules'[self].children = Append(modules[self].children, ret')
            /\ modules'[ret'] = Module(modules[self].design, call'.name)
            /\ modules'[ret'].design = modules'[self].design
            /\ \A m \in ModuleIds \ {self} :
                 modules'[m].children = modules[m].children
            /\ \A m \in ModuleIds : modules'[m].design = modules[m].design
       ELSE \A m \in ModuleIds :
              modules'[m].children = modules[m].children]_vars

\* C2's case: the second add_module call on the same module, whose design
\* is a Design, has returned the second of its two children.
C2_Witness ==
  /\ call.op = "Module.add_module"
  /\ Len(modules[call.self].children) = 2
  /\ modules[call.self].children[2] = ret
  /\ modules[call.self].children[1] # ret
  /\ modules[ret].design # None
  /\ modules[ret].design = modules[call.self].design

\* C3: the "Module:" lines of print_design are one per visit, in depth-first
\* pre-order (the registered modules in registration order, each module
\* before its descendants, each child's subtree before the next sibling),
\* and the line of a visit at depth k is indented by 2k spaces: two for a
\* registered module and two more for every level of nesting.
PreOrder(d, V, index) ==
  /\ Len(index) = Cardinality(V)
  /\ \A p \in V : stdout[index[Rank(V, p)]] = ModuleLine(d, p)

C3_PreOrder ==
  Printed => PreOrder(call.self, Visits(call.self),
                      IndexesOf(stdout, ModuleLines))

\* C3's case: a printed design with two registered modules, the first with
\* a grandchild and a second child, which is printed after that grandchild.
C3_Witness ==
  /\ Printed
  /\ Len(designs[call.self].modules) = 2
  /\ <<1, 1, 1>> \in Visits(call.self)
  /\ <<1, 2>> \in Visits(call.self)
  /\ Rank(Visits(call.self), <<1, 2>>) = 4
  /\ SubSeq(stdout, 2, 4) =
       <<"  Module: module1", "    Module: module1a", "      Module: module1a_1">>
  /\ stdout[6] = "    Module: module1b"

\* C4: in print_design, the line after the "Module:" line of a leaf module
\* with a non-empty PartList is its one "Parts:" line, the names joined by
\* commas in PartList order, two spaces deeper than the "Module:" line; the
\* line after the "Module:" line of a module with children is the "Module:"
\* line of its first child, with or without a PartList of its own.
PartsLineOfLeaf(d, V, index, partsLines) ==
  \A p \in V :
    LET m == ModuleAt(d, p)
        i == index[Rank(V, p)]
    IN /\ (modules[m].children = <<>> /\ PartNamesOf(m) # <<>>) =>
            /\ i + 1 <= Len(stdout)
            /\ stdout[i] = ModuleLine(d, p)
            /\ stdout[i + 1] = Spaces(2 * Len(p) + 2) \o "Parts: "
                                 \o CommaList(PartNamesOf(m))
            /\ i + 2 <= Len(stdout) => stdout[i + 2] \notin partsLines
       /\ modules[m].children # <<>> =>
            /\ i + 1 <= Len(stdout)
            /\ stdout[i + 1] = ModuleLine(d, Append(p, 1))
            /\ stdout[i + 1] \notin partsLines

C4_PartsLine ==
  Printed => PartsLineOfLeaf(call.self, Visits(call.self),
                             IndexesOf(stdout, ModuleLines), PartsLines)

\* C4's case: a printed design whose module1 has a child and a PartList of
\* its own, and whose leaf module1a_1 prints its three parts.
C4_Witness ==
  /\ Printed
  /\ Len(stdout) >= 5
  /\ ModuleAt(call.self, <<1>>) = 1
  /\ modules[1].children # <<>>
  /\ PartNamesOf(1) # <<>>
  /\ stdout[2] = "  Module: module1"
  /\ stdout[3] = "    Module: module1a"
  /\ stdout[4] = "      Module: module1a_1"
  /\ stdout[5] = "        Parts: 1a_1_p,1a_1_c,1a_1_t"

\* C5 (the claim as stated): when print_design reaches an Interaction with
\* a missing endpoint, the exception it raises is MissingEndpointError.
C5_MissingEndpointError ==
  (Printed /\ \E k \in 1..Len(designs[call.self].interactions) :
                LET i == interactions[designs[call.self].interactions[k]]
                IN i.part_start = None \/ i.part_end = None)
    => raised = "MissingEndpointError"

\* C6 (the claim as stated): in print_design, no "Parts:" line follows the
\* "Module:" line of a leaf module whose PartList is absent or empty.
NoPartsLineOfEmptyLeaf(d, V, index, partsLines) ==
  \A p \in V :
    LET m == ModuleAt(d, p)
        i == index[Rank(V, p)]
    IN (modules[m].children = <<>> /\ PartNamesOf(m) = <<>>) =>
         ~(i + 1 <= Len(stdout) /\ stdout[i + 1] \in partsLines)

C6_NoPartsLineWhenEmpty ==
  Printed => NoPartsLineOfEmptyLeaf(call.self, Visits(call.self),
                                    IndexesOf(stdout, ModuleLines), PartsLines)

\* C7 (the claim as stated): the PartList of a Module is never a missing
\* value: a Module to which no Part was added has a PartList, with no parts.
C7_PartListNeverMissing ==
  \A m \in ModuleIds :
    /\ modules[m].part_list # None
    /\ modules[m].part_list \in PartListIds

----------------------------------------------------------------------------
(* The interaction lines *)

InteractionsOf(d) == designs[d].interactions

\* Both endpoints of the k-th registered interaction are Parts.
Ready(d, k) ==
  /\ interactions[InteractionsOf(d)[k]].part_start # None
  /\ interactions[InteractionsOf(d)[k]].part_end # None

\* How many registered interactions precede the first with a missing endpoint.
ReadyPrefix(d) ==
  Cardinality({k \in 1..Len(InteractionsOf(d)) : \A j \in 1..k : Ready(d, j)})

InteractionLine(i) ==
  "Interaction from part: " \o parts[interactions[i].part_start].name
    \o " to part: " \o parts[interactions[i].part_end].name
    \o " of type: " \o interactions[i].type

\* The last n lines of stdout are the lines of the first n registered
\* interactions, in order, each in the exact format when its endpoints are
\* present, and everything before them is the design line and the tree.
EndsWithInteractionLines(d, n, treeLines) ==
  /\ Len(stdout) >= n + 1
  /\ stdout[1] = "Design: " \o designs[d].name
  /\ \A j \in 2..(Len(stdout) - n) : stdout[j] \in treeLines
  /\ \A k \in 1..n :
       /\ stdout[Len(stdout) - n + k] \notin treeLines
       /\ Ready(d, k) =>
            stdout[Len(stdout) - n + k] = InteractionLine(InteractionsOf(d)[k])

\* C8 (the claim as stated): after the module subtrees print_design emits
\* exactly one line per registered Interaction, in registration order, in
\* the exact format when both endpoints are present.
C8_OneLinePerInteraction ==
  Printed => EndsWithInteractionLines(call.self, Len(InteractionsOf(call.self)),
                                      ModuleLines \cup PartsLines)

\* C8 (amended): after the module subtrees print_design emits exactly one
\* line for each registered Interaction that precedes the first one with a
\* missing endpoint (for all of them when no endpoint is missing), in
\* registration order and in the exact format, and no line for the others;
\* the endpoints need not belong to a registered module.
C8_OneLinePerReadyInteraction ==
  Printed => EndsWithInteractionLines(call.self, ReadyPrefix(call.self),
                                      ModuleLines \cup PartsLines)

\* C8's case: a printed design with no registered module and an interaction
\* between parts of another design's modules: its line is the whole output
\* after the design line.
C8_Witness ==
  /\ Printed
  /\ designs[call.self].modules = <<>>
  /\ Len(InteractionsOf(call.self)) = 1
  /\ ReadyPrefix(call.self) = 1
  /\ stdout = <<"Design: design2",
                "Interaction from part: 1a_1_p to part: 2p of type: inhibition">>

----------------------------------------------------------------------------

\* C9: every call of Design.add_module appends its arguments (one module,
\* or the modules of a list, in order) to the end of that design's modules
\* and every call of Design.add_interaction does the same for interactions;
\* each leaves the other list and every other design alone, nothing already
\* stored is removed, moved or merged with a repeated item, and no other
\* call changes either list.
C9_DesignListsAppendOnly ==
  [][\A d \in DesignIds :
       /\ designs'[d].modules =
            designs[d].modules \o
              (IF call'.op = "Design.add_module" /\ call'.self = d
                 THEN call'.arg.items ELSE <<>>)
       /\ designs'[d].interactions =
            designs[d].interactions \o
              (IF call'.op = "Design.add_interaction" /\ call'.self = d
                 THEN call'.arg.items ELSE <<>>)]_vars

\* C9's case: a module the design already held has just been added again,
\* in a list, and is stored a second time.
C9_Witness ==
  /\ call.op = "Design.add_module"
  /\ call.arg.list
  /\ call.arg.items = <<4, 1>>
  /\ designs[call.self].modules = <<1, 4, 4, 1>>
  /\ designs[call.self].interactions = <<1>>

\* C10: a call of print_design, whether it returns or raises, leaves the
\* modules and interactions of every design and the children, part_list and
\* other_parts of every module (and every PartList, Part and Interaction) as
\* they were.
C10_PrintIsReadOnly ==
  [][call'.op = "Design.print_design" =>
       /\ designs' = designs
       /\ modules' = modules
       /\ part_lists' = part_lists
       /\ parts' = parts
       /\ interactions' = interactions]_vars

\* C10's case: print_design has raised on the second of two registered
\* interactions, after printing the tree and the first interaction.
C10_Witness ==
  /\ Printed
  /\ raised = "AttributeError"
  /\ Len(InteractionsOf(call.self)) = 2
  /\ Len(designs[call.self].modules) = 2
  /\ Len(stdout) = 8

----------------------------------------------------------------------------
(* The children relation *)

ChildrenOf(m) == {modules[m].children[j] : j \in 1..Len(modules[m].children)}

\* The modules reached from the set S in at most n steps down the children
\* lists (S included); n = Len(modules) steps reach every descendant.
RECURSIVE Reach(_, _)
Reach(S, n) ==
  IF n = 0 THEN S ELSE Reach(S \cup UNION {ChildrenOf(m) : m \in S}, n - 1)

Descendants(m) == Reach(ChildrenOf(m), Len(modules))

\* The places (parent, position) where module c is stored as a child.
PlacesOf(c) ==
  {pj \in ModuleIds \X (1..Len(modules)) :
     /\ pj[2] <= Len(modules[pj[1]].children)
     /\ modules[pj[1]].children[pj[2]] = c}

\* The children relation is a forest: every child is a module, was created
\* after its parent, is stored in one place only, and no module is among
\* its own descendants.
Forest ==
  /\ \A m \in ModuleIds : ChildrenOf(m) \subseteq ModuleIds
  /\ \A m \in ModuleIds : \A c \in ChildrenOf(m) : c > m
  /\ \A c \in ModuleIds : Cardinality(PlacesOf(c)) <= 1
  /\ \A m \in ModuleIds : m \notin Descendants(m)

\* The number of visits of a traversal that starts at each module of the
\* list roots in turn.
RECURSIVE TreeSizes(_)
TreeSizes(roots) ==
  IF roots = <<>> THEN 0
  ELSE 1 + Cardinality(Descendants(Head(roots))) + TreeSizes(Tail(roots))

AllReady(d) == \A k \in 1..Len(InteractionsOf(d)) : Ready(d, k)

\* C11: in every design built by the constructors and the add_* methods the
\* children relation is a forest (each child was created by add_module after
\* its parent, is in the children list of one parent, once, and no module is
\* its own descendant); and a print_design call on a design whose
\* interactions all have both endpoints ends without an exception, having
\* printed one "Module:" line for each registered module and each of its
\* descendants and one line per interaction.
C11_ForestAndTermination ==
  /\ Forest
  /\ (Printed /\ AllReady(call.self)) =>
       /\ raised = "None"
       /\ Len(IndexesOf(stdout, ModuleLines)) =
            TreeSizes(designs[call.self].modules)
       /\ Len(stdout) >= 1 + TreeSizes(designs[call.self].modules)
                           + Len(InteractionsOf(call.self))

\* C11's case: print_design has returned on a design whose first module has
\* two children, one of them with a child of its own, and the second child
\* has been registered as a top-level module as well.
C11_Witness ==
  /\ Printed
  /\ raised = "None"
  /\ AllReady(call.self)
  /\ Len(modules) = 5
  /\ modules[1].children = <<2, 5>>
  /\ Descendants(1) = {2, 3, 5}
  /\ designs[call.self].modules = <<1, 4, 5>>
  /\ TreeSizes(designs[call.self].modules) = 6

====
